---- MODULE Spec2Model ----
(***************************************************************************)
(* nose-machineout: the plugin NoseMachineReadableOutput of machineout.py. *)
(*                                                                         *)
(* Python strings are TLA+ strings; a character is a string of length 1.   *)
(* A list of strings is a sequence of strings.  Every operator that walks  *)
(* a text is written with index sets instead of recursion over the         *)
(* characters, recursion being kept for short lists only.                  *)
(***************************************************************************)
EXTENDS Integers, Sequences, FiniteSets, TLC

VARIABLES
    basepath,   \* self.basepath, os.getcwd() at construction
    hasStream,  \* whether self.stream exists (setOutputStream was called)
    stream,     \* the lines written to self.stream with writeln, in order
    op,         \* the method called last ("none" before any call)
    args,       \* its arguments
    ret,        \* what it returned (for a generator: what it yielded)
    raised      \* whether it ended in an exception

vars == <<basepath, hasStream, stream, op, args, ret, raised>>

----------------------------------------------------------------------------
(* Bounds of the model *)

\* longest traceback handed to the frame selector
MaxFrames == 3
\* most sections in a doctest report
MaxSections == 2

----------------------------------------------------------------------------
(* Python's str and list primitives *)

Min(S) == CHOOSE x \in S : \A y \in S : x <= y
Max(S) == CHOOSE x \in S : \A y \in S : y <= x

\* s[i-1] in Python's 0-based indexing
Char(s, i) == SubSeq(s, i, i)

\* s[i-1:].startswith(pat)
At(s, i, pat) ==
    /\ i >= 1
    /\ i + Len(pat) - 1 <= Len(s)
    /\ SubSeq(s, i, i + Len(pat) - 1) = pat

\* s.startswith(prefix)
startswith(s, prefix) == At(s, 1, prefix)

\* s.find(sub) >= 0
contains(s, sub) == \E i \in 1..(Len(s) + 1) : At(s, i, sub)

\* s[n:]
from(s, n) == IF n >= Len(s) THEN "" ELSE SubSeq(s, n + 1, Len(s))

\* the first index of s from p on that holds a character of cs (0: none)
First(s, p, cs) ==
    IF \E j \in p..Len(s) : Char(s, j) \in cs
    THEN CHOOSE j \in p..Len(s) :
            Char(s, j) \in cs /\ \A k \in p..(j - 1) : Char(s, k) \notin cs
    ELSE 0

\* the first index of s from p on that holds no character of cs
\* (Len(s) + 1: none)
FirstNot(s, p, cs) ==
    IF \E j \in p..Len(s) : Char(s, j) \notin cs
    THEN CHOOSE j \in p..Len(s) :
            Char(s, j) \notin cs /\ \A k \in p..(j - 1) : Char(s, k) \in cs
    ELSE Len(s) + 1

\* the last index of s from p on that holds a character of cs (0: none)
Last(s, p, cs) ==
    IF \E j \in p..Len(s) : Char(s, j) \in cs
    THEN CHOOSE j \in p..Len(s) :
            Char(s, j) \in cs /\ \A k \in (j + 1)..Len(s) : Char(s, k) \notin cs
    ELSE 0

\* s[p-1:].split(sep) for a separator of one character
RECURSIVE SplitFrom(_, _, _)
SplitFrom(s, p, sep) ==
    LET d == First(s, p, {sep})
    IN  IF d = 0 THEN <<from(s, p - 1)>>
        ELSE <<SubSeq(s, p, d - 1)>> \o SplitFrom(s, d + 1, sep)

\* s.split(sep) for a separator of one character
split(s, sep) == SplitFrom(s, 1, sep)

\* s.strip(c) for a set of one character
strip(s, c) ==
    LET lo == FirstNot(s, 1, {c})
    IN  IF lo > Len(s) THEN ""
        ELSE SubSeq(s, lo, CHOOSE j \in lo..Len(s) :
                              Char(s, j) # c /\ \A k \in (j + 1)..Len(s) : Char(s, k) = c)

\* ' ' * n
RECURSIVE Spaces(_)
Spaces(n) == IF n <= 0 THEN "" ELSE " " \o Spaces(n - 1)

\* sep.join(ss)
RECURSIVE join(_, _)
join(sep, ss) ==
    IF ss = <<>> THEN ""
    ELSE IF Len(ss) = 1 THEN ss[1]
    ELSE ss[1] \o sep \o join(sep, Tail(ss))

DigitChars == "0123456789"
Digits == {Char(DigitChars, d) : d \in 1..10}
DigitVal(c) == (CHOOSE d \in 1..10 : Char(DigitChars, d) = c) - 1

\* int(s) for a string of decimal digits (the empty string is a ValueError,
\* which the caller tests before)
RECURSIVE int(_)
int(s) ==
    IF s = "" THEN 0
    ELSE 10 * int(SubSeq(s, 1, Len(s) - 1)) + DigitVal(Char(s, Len(s)))

\* "%d" % n
RECURSIVE fmt_d(_)
fmt_d(n) ==
    IF n < 0 THEN "-" \o fmt_d(0 - n)
    ELSE IF n < 10 THEN Char(DigitChars, n + 1)
    ELSE fmt_d(n \div 10) \o Char(DigitChars, (n % 10) + 1)

\* os.path.basename(p) on posix: what follows the last '/'
basename(p) == from(p, Last(p, 1, {"/"}))

----------------------------------------------------------------------------
(* The frame selector.  A frame is <<fname, lineno, funname, text>>. *)

\* max_score of _calcScore
max_score == 7

\* _calcScore(frame) * max_score: the code returns score / max_score with
\* max_score = 7.0, a float division that keeps the order of the scores and
\* gives exactly 1.0 for 7, so the numerator is compared instead.
_calcScore(frame) ==
    LET fname   == frame[1]
        funname == frame[3]
    IN  (IF startswith(fname, basepath) THEN 4 ELSE 0)
        + (IF contains(basename(fname), "test") THEN 2 ELSE 0)
        + (IF ~startswith(funname, "assert") THEN 1 ELSE 0)

\* ScanFrames with ">=" for ">": a later frame of the same score replaces
\* the best one
RECURSIVE ScanFrames_not_strict(_, _, _, _)
ScanFrames_not_strict(traceback, i, best, best_score) ==
    IF i > Len(traceback) THEN best
    ELSE LET frame      == traceback[i]
             curr_score == _calcScore(frame)
         IN  IF curr_score >= best_score
             THEN IF curr_score >= max_score
                  THEN frame
                  ELSE ScanFrames_not_strict(traceback, i + 1, frame, curr_score)
             ELSE ScanFrames_not_strict(traceback, i + 1, best, best_score)

\* the for loop of _selectBestStackFrame from frame i on, with its break
RECURSIVE ScanFrames(_, _, _, _)
ScanFrames(traceback, i, best, best_score) ==
    IF i > Len(traceback) THEN best
    ELSE LET frame      == traceback[i]
             curr_score == _calcScore(frame)
         IN  IF curr_score > best_score
             THEN IF curr_score >= max_score
                  THEN frame
                  ELSE ScanFrames(traceback, i + 1, frame, curr_score)
             ELSE ScanFrames(traceback, i + 1, best, best_score)

\* _selectBestStackFrame with the walk ended by the first frame that meets
\* any one criterion (a score of 1/7 or more)
RECURSIVE ScanFrames_any_criterion(_, _, _, _)
ScanFrames_any_criterion(traceback, i, best, best_score) ==
    IF i > Len(traceback) THEN best
    ELSE LET frame      == traceback[i]
             curr_score == _calcScore(frame)
         IN  IF curr_score > best_score
             THEN IF curr_score >= 1
                  THEN frame
                  ELSE ScanFrames_any_criterion(traceback, i + 1, frame,
                                                curr_score)
             ELSE ScanFrames_any_criterion(traceback, i + 1, best, best_score)

_selectBestStackFrame_any_criterion(traceback) ==
    ScanFrames_any_criterion(traceback, 1, traceback[Len(traceback)], 0)

\* _selectBestStackFrame with the first frame, not the last, as fallback
_selectBestStackFrame_first_fallback(traceback) ==
    ScanFrames(traceback, 1, traceback[1], 0)

\* _selectBestStackFrame(traceback) for a non-empty traceback (traceback[-1]
\* of an empty one is an IndexError, which the callers test before)
_selectBestStackFrame(traceback) ==
    ScanFrames(traceback, 1, traceback[Len(traceback)], 0)

----------------------------------------------------------------------------
(* The line emitter *)

_format_testfname(fname) ==
    IF startswith(fname, basepath)
    THEN from(fname, Len(basepath) + 1)
    ELSE fname

\* _write_lines with a pad of len(etype) blanks, one short
_write_lines_short_pad(etype, fname, lineno, lines) ==
    LET prefix == _format_testfname(fname) \o ":" \o fmt_d(lineno)
        pad    == Spaces(Len(etype))
    IN  IF lines = <<>> THEN [out |-> <<>>, raised |-> FALSE]
        ELSE IF ~hasStream THEN [out |-> <<>>, raised |-> TRUE]
        ELSE [out |-> [i \in 1..Len(lines) |->
                         IF i = 1
                         THEN prefix \o ": " \o etype \o ": " \o lines[1]
                         ELSE prefix \o ": " \o pad \o " " \o lines[i]],
              raised |-> FALSE]

\* What _write_lines writes: [out |-> the lines, raised |-> whether it ended
\* in an exception].  self.stream is read only when a line is written, and
\* is an AttributeError before setOutputStream.
_write_lines(etype, fname, lineno, lines) ==
    LET prefix == _format_testfname(fname) \o ":" \o fmt_d(lineno)
        pad    == Spaces(Len(etype) + 1)
    IN  IF lines = <<>> THEN [out |-> <<>>, raised |-> FALSE]
        ELSE IF ~hasStream THEN [out |-> <<>>, raised |-> TRUE]
        ELSE [out |-> [i \in 1..Len(lines) |->
                         IF i = 1
                         THEN prefix \o ": " \o etype \o ": " \o lines[1]
                         ELSE prefix \o ": " \o pad \o " " \o lines[i]],
              raised |-> FALSE]

----------------------------------------------------------------------------
(* The doctest report parser *)

\* A group of a match: m.groups() gives None for a group that took no part.
None == [has |-> FALSE, s |-> ""]
Group(s) == [has |-> TRUE, s |-> s]

\* what \s matches
Whitespace == {" ", "\t", "\n", "\r", "\f"}

\* re.split('-+', s[p-1:]): the pieces between the maximal runs of '-'
RECURSIVE SplitDashesFrom(_, _)
SplitDashesFrom(s, p) ==
    LET d == First(s, p, {"-"})
    IN  IF d = 0 THEN <<from(s, p - 1)>>
        ELSE <<SubSeq(s, p, d - 1)>>
             \o SplitDashesFrom(s, FirstNot(s, d, {"-"}))

\* re.split('-+', s)
re_split_dashes(s) == SplitDashesFrom(s, 1)

NoMatch ==
    [ok |-> FALSE, fname |-> None, lineno |-> None, funname |-> None,
     example |-> None, expected |-> None, got |-> None,
     got_nothing |-> None, exc |-> None]

\* The outcome alternative of doctest_value_pattern tried at index a:
\*   Expected:\n(.*)\nGot(?:(?::?\n(.*)\n)|(?: (nothing)))
\*   | Exception raised:\n(.*)
\* under re.DOTALL.  The greedy (.*) of Expected ends at the last "\nGot"
\* after which one of the two continuations matches; the greedy (.*) of Got
\* ends before the last newline of the text.
MatchOutcome(s, a) ==
    LET b        == a + Len("Expected:\n")
        colon(g) == IF At(s, g, ":") THEN g + 1 ELSE g
        lastnl(h) == Last(s, h + 1, {"\n"})
        value(g) == At(s, colon(g), "\n") /\ lastnl(colon(g)) # 0
        nothing(g) == At(s, g, " nothing")
        ends     == {e \in b..Len(s) :
                        /\ At(s, e, "\nGot")
                        /\ (value(e + 4) \/ nothing(e + 4))}
    IN  IF At(s, a, "Expected:\n") /\ ends # {}
        THEN LET e == Max(ends)
                 g == e + 4
             IN  IF value(g)
                 THEN [NoMatch EXCEPT !.ok = TRUE,
                         !.expected = Group(SubSeq(s, b, e - 1)),
                         !.got = Group(SubSeq(s, colon(g) + 1,
                                              lastnl(colon(g)) - 1))]
                 ELSE [NoMatch EXCEPT !.ok = TRUE,
                         !.expected = Group(SubSeq(s, b, e - 1)),
                         !.got_nothing = Group("nothing")]
        ELSE IF At(s, a, "Exception raised:\n")
        THEN [NoMatch EXCEPT !.ok = TRUE,
                !.exc = Group(from(s, a - 1 + Len("Exception raised:\n")))]
        ELSE NoMatch

\* The tail of doctest_value_pattern, \s*([^\n]*)\n(?: outcome ), with
\* \s* taking the indices p4..e-1: the greedy \s* takes the whole run of
\* whitespace first and gives one character back at a time until the rest
\* matches.  The result is the match with the example group set.
RECURSIVE MatchExample(_, _, _)
MatchExample(s, p4, e) ==
    IF e < p4 THEN NoMatch
    ELSE LET n4 == First(s, e, {"\n"})
             m  == MatchOutcome(s, n4 + 1)
         IN  IF n4 # 0 /\ m.ok
             THEN [m EXCEPT !.example = Group(SubSeq(s, e, n4 - 1))]
             ELSE MatchExample(s, p4, e - 1)

\* doctest_value_pattern matched from index i:
\*   File "([^"]*)", line (\d*), in ([^\n]*)\nFailed example:\n
\*   \s*([^\n]*)\n(?: outcome )
\* Each of the first three groups ends where its class ends.
MatchAt(s, i) ==
    LET p1  == i + Len("File \"")
        q   == First(s, p1, {"\""})
        p2  == q + Len("\", line ")
        d   == FirstNot(s, p2, Digits)
        p3  == d + Len(", in ")
        n3  == First(s, p3, {"\n"})
        p4  == n3 + Len("\nFailed example:\n")
        m   == MatchExample(s, p4, FirstNot(s, p4, Whitespace))
    IN  IF /\ At(s, i, "File \"")
           /\ q # 0
           /\ At(s, q, "\", line ")
           /\ At(s, d, ", in ")
           /\ n3 # 0
           /\ At(s, n3, "\nFailed example:\n")
           /\ m.ok
        THEN [m EXCEPT
                !.fname = Group(SubSeq(s, p1, q - 1)),
                !.lineno = Group(SubSeq(s, p2, d - 1)),
                !.funname = Group(SubSeq(s, p3, n3 - 1))]
        ELSE NoMatch

\* the first index of s from p on where pat stands (0: none)
Find(s, p, pat) ==
    IF \E j \in p..Len(s) : At(s, j, pat)
    THEN CHOOSE j \in p..Len(s) :
            At(s, j, pat) /\ \A k \in p..(j - 1) : ~At(s, k, pat)
    ELSE 0

\* doctest_value_pattern.search(part[p-1:]): the match at the leftmost
\* index that has one; NoMatch stands for the None that search returns.
RECURSIVE SearchFrom(_, _)
SearchFrom(part, p) ==
    LET i == Find(part, p, "File \"")
        m == MatchAt(part, i)
    IN  IF i = 0 THEN NoMatch
        ELSE IF m.ok THEN m
        ELSE SearchFrom(part, i + 1)

doctest_value_pattern_search(part) == SearchFrom(part, 1)

\* repr of one character of a str, inside the quote q
Escape(c, q) ==
    IF c = "\\" THEN "\\\\"
    ELSE IF c = "\n" THEN "\\n"
    ELSE IF c = "\t" THEN "\\t"
    ELSE IF c = "\r" THEN "\\r"
    ELSE IF c = q THEN "\\" \o q
    ELSE c

RECURSIVE EscapeRange(_, _, _, _)
EscapeRange(s, q, lo, hi) ==
    IF lo > hi THEN ""
    ELSE IF lo = hi THEN Escape(Char(s, lo), q)
    ELSE LET mid == (lo + hi) \div 2
         IN  EscapeRange(s, q, lo, mid) \o EscapeRange(s, q, mid + 1, hi)

\* repr of the group with the whitespace at its ends removed first
repr_stripped(g) ==
    IF ~g.has THEN "None"
    ELSE LET lo == FirstNot(g.s, 1, Whitespace)
             t  == IF lo > Len(g.s) THEN ""
                   ELSE SubSeq(g.s, lo,
                               CHOOSE j \in lo..Len(g.s) :
                                  /\ Char(g.s, j) \notin Whitespace
                                  /\ \A k \in (j + 1)..Len(g.s) :
                                        Char(g.s, k) \in Whitespace)
             q  == IF contains(t, "'") /\ ~contains(t, "\"") THEN "\"" ELSE "'"
         IN  q \o EscapeRange(t, q, 1, Len(t)) \o q

\* repr(g) of a group: 'None' for None, else the str in quotes, in double
\* quotes when it holds a single quote and no double quote
repr(g) ==
    IF ~g.has THEN "None"
    ELSE LET q == IF contains(g.s, "'") /\ ~contains(g.s, "\"")
                  THEN "\"" ELSE "'"
         IN  q \o EscapeRange(g.s, q, 1, Len(g.s)) \o q

\* the longest common prefix of a non-empty set of strings
CommonPrefix(S) ==
    LET any == CHOOSE x \in S : TRUE
        ks  == {k \in 0..Len(any) :
                   \A x \in S : k <= Len(x) /\ SubSeq(x, 1, k) = SubSeq(any, 1, k)}
    IN  SubSeq(any, 1, Max(ks))

\* textwrap.dedent(text): lines of blanks and tabs only become empty, and
\* the longest common leading run of blanks and tabs of the other lines
\* is removed from them
dedent(text) ==
    LET raw      == split(text, "\n")
        blank(l) == \A i \in 1..Len(l) : Char(l, i) \in {" ", "\t"}
        lines    == [i \in 1..Len(raw) |-> IF blank(raw[i]) THEN "" ELSE raw[i]]
        indent(l) == SubSeq(l, 1, FirstNot(l, 1, {" ", "\t"}) - 1)
        indents  == {indent(lines[i]) : i \in {j \in 1..Len(lines) : lines[j] # ""}}
        margin   == IF indents = {} THEN "" ELSE CommonPrefix(indents)
    IN  join("\n", [i \in 1..Len(lines) |->
                      IF lines[i] # "" THEN from(lines[i], Len(margin))
                      ELSE ""])

\* The record _format_doctests yields for a matched part, as
\* <<etype, fname, lineno, lines>>
DoctestRecord(m) ==
    LET lineno == int(m.lineno.s)
    IN  IF m.exc.has /\ m.exc.s # ""
        THEN LET lines == split(dedent(strip(m.exc.s, "\n")), "\n")
             IN  <<"error", m.fname.s, lineno,
                   <<lines[Len(lines)]>> \o SubSeq(lines, 1, Len(lines) - 1)>>
        ELSE IF m.got_nothing.has
        THEN <<"fail", m.fname.s, lineno,
               <<"expected " \o repr(m.expected) \o " but got nothing">>>>
        ELSE <<"fail", m.fname.s, lineno,
               <<"expected " \o repr(m.expected) \o " but got "
                   \o repr(m.got)>>>>

\* _format_doctests(err_str), a generator: [records |-> what it yields, in
\* order, raised |-> whether it then ends in an exception].  It raises at
\* the first part that search does not match (m is None: AttributeError) or
\* whose line number group is empty (int(''): ValueError).
RECURSIVE DoctestLoop(_, _)
DoctestLoop(err_parts, k) ==
    IF k > Len(err_parts) THEN [records |-> <<>>, raised |-> FALSE]
    ELSE LET m == doctest_value_pattern_search(err_parts[k])
         IN  IF ~m.ok \/ m.lineno.s = ""
             THEN [records |-> <<>>, raised |-> TRUE]
             ELSE LET later == DoctestLoop(err_parts, k + 1)
                  IN  [records |-> <<DoctestRecord(m)>> \o later.records,
                       raised  |-> later.raised]

_format_doctests(err_str) == DoctestLoop(re_split_dashes(err_str), 2)

----------------------------------------------------------------------------
(* The hooks *)

\* The for loop of add_formatted over the records of a doctest report,
\* from record k on: each record is written when the generator yields it,
\* with its own etype (the loop variable hides the parameter), and the
\* loop ends when _write_lines or the generator raises.
RECURSIVE WriteLoop(_, _)
WriteLoop(linesets, k) ==
    IF k > Len(linesets.records)
    THEN [out |-> <<>>, raised |-> linesets.raised]
    ELSE LET rec == linesets.records[k]
             w   == _write_lines(rec[1], rec[2], rec[3], rec[4])
         IN  IF w.raised THEN w
             ELSE LET later == WriteLoop(linesets, k + 1)
                  IN  [out |-> w.out \o later.out, raised |-> later.raised]

\* add_formatted with every record of a doctest report written under the
\* etype of the hook
RECURSIVE WriteLoop_hook_etype(_, _, _)
WriteLoop_hook_etype(etype, linesets, k) ==
    IF k > Len(linesets.records)
    THEN [out |-> <<>>, raised |-> linesets.raised]
    ELSE LET rec == linesets.records[k]
             w   == _write_lines(etype, rec[2], rec[3], rec[4])
         IN  IF w.raised THEN w
             ELSE LET later == WriteLoop_hook_etype(etype, linesets, k + 1)
                  IN  [out |-> w.out \o later.out, raised |-> later.raised]

add_formatted_hook_etype(etype, err) ==
    IF startswith(err.value_str, "Failed doctest test")
    THEN WriteLoop_hook_etype(etype, _format_doctests(err.value_str), 1)
    ELSE IF err.tb = <<>>
    THEN [out |-> <<>>, raised |-> TRUE]
    ELSE LET frame == _selectBestStackFrame(err.tb)
             lines == [i \in 1..Len(err.exc_lines) |->
                         strip(err.exc_lines[i], "\n")]
         IN  _write_lines(etype, frame[1], frame[2], lines)

\* What add_formatted(etype, err) writes, and whether it raises.  err is
\* [value_str |-> str(value), tb |-> traceback.extract_tb(tb),
\*  exc_lines |-> traceback.format_exception_only(exctype, value)].
add_formatted(etype, err) ==
    IF startswith(err.value_str, "Failed doctest test")
    THEN WriteLoop(_format_doctests(err.value_str), 1)
    ELSE IF err.tb = <<>>
    THEN [out |-> <<>>, raised |-> TRUE]
    ELSE LET frame == _selectBestStackFrame(err.tb)
             lines == [i \in 1..Len(err.exc_lines) |->
                         strip(err.exc_lines[i], "\n")]
         IN  _write_lines(etype, frame[1], frame[2], lines)

addError(test, err) == add_formatted("error", err)

addFailure(test, err) == add_formatted("fail", err)

----------------------------------------------------------------------------
(* The inputs *)

\* values of os.getcwd()
BasePaths == {"/proj", "/usr"}

\* file names handed to the emitter
Fnames ==
    {"/proj/t.py", "/proj/pkg/test_a.py", "/project/x.py", "/proj",
     "/usr/lib/u.py", "t.py"}

\* message lines handed to the emitter
LineLists ==
    {<<>>, <<"boom">>, <<"AssertionError: 1 != 2", "  detail">>,
     <<"NameError: x", "Traceback (most recent call last):", "  ...">>}

\* line numbers handed to the emitter
Linenos == {7, 120}

\* The (file, function) of the frames of a traceback.
FramePool ==
    << <<"/usr/lib/u.py", "assertEq">>,
       <<"/usr/lib/test_u.py", "assertEq">>,
       <<"/proj/m.py", "assertEq">>,
       <<"/proj/test_m.py", "test_m">>,
       <<"/usr/lib/u.py", "run">> >>

\* The frame of pool entry k at depth i of a traceback; its line number
\* tells the depth.
Frame(k, i) == <<FramePool[k][1], 10 * i, FramePool[k][2], "stmt()">>

\* what traceback.extract_tb can return: outermost frame first
Tracebacks ==
    {[i \in 1..Len(ks) |-> Frame(ks[i], i)] :
        ks \in UNION {[1..n -> 1..Len(FramePool)] : n \in 0..MaxFrames}}

\* what traceback.format_exception_only can return: lines ending in "\n"
ExcLines ==
    {<<"AssertionError: 1 != 2\n">>,
     <<"  File \"m.py\", line 3\n", "SyntaxError: invalid syntax\n">>}

\* The sections of a doctest report: the header fields, the example and the
\* outcome ("nothing", "got", "exc"; "bad" is text of another layout).
Sec(path, line, fn, src, outcome, expected, got, tb) ==
    [path |-> path, line |-> line, fn |-> fn, src |-> src,
     outcome |-> outcome, expected |-> expected, got |-> got, tb |-> tb]

SectionPool ==
    << Sec("/foo.py", "5", "foo_fn", "foo_bar()", "nothing", "    foo", "", <<>>),
       Sec("/foo.py", "9", "foo_fn", "foo_fn()", "got", "    foo", "    bar", <<>>),
       Sec("/foo.py", "10", "foo_fn", "print(bar)", "exc", "", "",
           <<"Traceback (most recent call last):", "  ...",
             "NameError: name 'bar' is not defined">>),
       Sec("/proj/t.py", "07", "t", "f()", "exc", "", "",
           <<"ZeroDivisionError">>),
       Sec("/a-b.py", "3", "g", "g()", "nothing", "    1", "", <<>>),
       Sec("/foo.py", "12", "h", "h(2)", "got", "    -1", "    it's\n    1", <<>>),
       Sec("/foo.py", "20", "k", "neg('x')", "exc", "", "",
           <<"Traceback (most recent call last):",
             "TypeError: bad operand type for unary -: 'str'">>),
       Sec("", "", "", "", "bad", "", "", <<>>) >>

\* The text of a section, as doctest lays it out
SectionText(sec) ==
    IF sec.outcome = "bad" THEN "no failed example here\n"
    ELSE "File \"" \o sec.path \o "\", line " \o sec.line \o ", in " \o sec.fn
         \o "\nFailed example:\n    " \o sec.src \o "\n"
         \o (IF sec.outcome = "nothing"
             THEN "Expected:\n" \o sec.expected \o "\nGot nothing\n"
             ELSE IF sec.outcome = "got"
             THEN "Expected:\n" \o sec.expected \o "\nGot:\n" \o sec.got \o "\n"
             ELSE "Exception raised:\n"
                  \o join("", [i \in 1..Len(sec.tb) |->
                                  "    " \o sec.tb[i] \o "\n"]))

Divider == "-------------------------------------------------\n"

\* The first lines of a report, before the first divider
Preamble ==
    "Failed doctest test for foo\n  File \"/foo.py\", line 1, in foo_fn\n"

\* The report of the sections ks of the pool
ReportText(ks) ==
    Preamble
    \o join("", [i \in 1..Len(ks) |->
                    Divider \o SectionText(SectionPool[ks[i]])])

\* The doctest reports: one or more sections after the preamble.
Reports ==
    {[secs |-> ks, text |-> ReportText(ks)] :
        ks \in UNION {[1..n -> 1..Len(SectionPool)] : n \in 1..MaxSections}}

\* The err of a hook: a doctest failure, or another exception.  secs names
\* the sections the report was laid out from (<<>> for another exception).
Errs ==
    {[value_str |-> r.text, tb |-> <<>>, exc_lines |-> <<>>, secs |-> r.secs] :
        r \in Reports}
    \cup
    {[value_str |-> "1 != 2", tb |-> tb, exc_lines |-> ls, secs |-> <<>>] :
        tb \in Tracebacks, ls \in ExcLines}

----------------------------------------------------------------------------
(* The state machine: one call of a method on a sink that holds nothing.   *)
(* The methods share no state but basepath, which none writes, and the     *)
(* sink, to which they only append.                                        *)

Init ==
    /\ basepath \in BasePaths
    /\ hasStream = FALSE
    /\ stream = <<>>
    /\ op = "none"
    /\ args = <<>>
    /\ ret = <<>>
    /\ raised = FALSE

Idle == op \in {"none", "setOutputStream"}

\* setOutputStream(stream): keeps the sink and returns a DummyStream
SetOutputStream ==
    /\ hasStream' = TRUE
    /\ stream' = <<>>
    /\ op' = "setOutputStream"
    /\ args' = <<>>
    /\ ret' = "DummyStream"
    /\ raised' = FALSE
    /\ UNCHANGED basepath

AddError ==
    /\ Idle
    /\ \E err \in Errs :
        LET r == addError("test", err)
        IN  /\ stream' = stream \o r.out
            /\ raised' = r.raised
            /\ args' = err
    /\ op' = "addError"
    /\ ret' = <<>>
    /\ UNCHANGED <<basepath, hasStream>>

AddFailure ==
    /\ Idle
    /\ \E err \in Errs :
        LET r == addFailure("test", err)
        IN  /\ stream' = stream \o r.out
            /\ raised' = r.raised
            /\ args' = err
    /\ op' = "addFailure"
    /\ ret' = <<>>
    /\ UNCHANGED <<basepath, hasStream>>

WriteLines ==
    /\ Idle
    /\ \E etype \in {"error", "fail"}, fname \in Fnames, lineno \in Linenos,
          lines \in LineLists :
        LET r == _write_lines(etype, fname, lineno, lines)
        IN  /\ stream' = stream \o r.out
            /\ raised' = r.raised
            /\ args' = [etype |-> etype, fname |-> fname, lineno |-> lineno,
                        lines |-> lines]
    /\ op' = "_write_lines"
    /\ ret' = <<>>
    /\ UNCHANGED <<basepath, hasStream>>

CalcScore ==
    /\ Idle
    /\ \E k \in 1..Len(FramePool) :
        /\ args' = Frame(k, 1)
        /\ ret' = _calcScore(Frame(k, 1))
    /\ op' = "_calcScore"
    /\ raised' = FALSE
    /\ UNCHANGED <<basepath, hasStream, stream>>

SelectBestStackFrame ==
    /\ Idle
    /\ \E tb \in Tracebacks :
        /\ args' = tb
        /\ raised' = (tb = <<>>)
        /\ ret' = IF tb = <<>> THEN <<>> ELSE _selectBestStackFrame(tb)
    /\ op' = "_selectBestStackFrame"
    /\ UNCHANGED <<basepath, hasStream, stream>>

\* list(self._format_doctests(err_str))
FormatDoctests ==
    /\ Idle
    /\ \E r \in Reports :
        LET g == _format_doctests(r.text)
        IN  /\ args' = r
            /\ ret' = g.records
            /\ raised' = g.raised
    /\ op' = "_format_doctests"
    /\ UNCHANGED <<basepath, hasStream, stream>>

FormatTestfname ==
    /\ Idle
    /\ \E fname \in Fnames :
        /\ args' = fname
        /\ ret' = _format_testfname(fname)
    /\ op' = "_format_testfname"
    /\ raised' = FALSE
    /\ UNCHANGED <<basepath, hasStream, stream>>

Next ==
    \/ SetOutputStream
    \/ AddError
    \/ AddFailure
    \/ WriteLines
    \/ CalcScore
    \/ SelectBestStackFrame
    \/ FormatDoctests
    \/ FormatTestfname

Spec == Init /\ [][Next]_vars

----------------------------------------------------------------------------
(* Properties *)

Hooks == {"addError", "addFailure"}

\* Whether every character of s from index lo to index hi is a blank
Blank(s, lo, hi) == \A j \in lo..hi : Char(s, j) = " "

\* The scores of the frames of a traceback, in order
Scores(tb) == [i \in 1..Len(tb) |-> _calcScore(tb[i])]

\* The sections a report was laid out from
SectionsOf(ks) == [i \in 1..Len(ks) |-> SectionPool[ks[i]]]

\* Whether every section is of the layout doctest writes
WellFormed(secs) == \A i \in 1..Len(secs) : secs[i].outcome # "bad"

\* C1: _write_lines writes exactly len(lines) lines to the sink, in message
\* order: the first is "<file>:<line>: <kind>: <lines[0]>", every later one
\* is "<file>:<line>: ", len(kind)+1 blanks, one more blank and the message
\* line, so that its text starts in the column of the headline's text;
\* nothing is written for an empty list.  <file> is the path as
\* _format_testfname prints it.
C1_EmitterLayout ==
    (op = "_write_lines" /\ hasStream) =>
        LET kind == args.etype
            lines == args.lines
            head == _format_testfname(args.fname) \o ":"
            col  == Len(head) + Len(fmt_d(args.lineno)) + Len(": ")
        IN  /\ ~raised
            /\ Len(stream) = Len(lines)
            /\ \A i \in 1..Len(lines) :
                /\ startswith(stream[i], head)
                /\ int(SubSeq(stream[i], Len(head) + 1, col - 2)) = args.lineno
                /\ At(stream[i], col - 1, ": ")
                /\ Len(stream[i]) = col + Len(kind) + 2 + Len(lines[i])
                /\ from(stream[i], col + Len(kind) + 2) = lines[i]
                /\ IF i = 1
                   THEN At(stream[i], col + 1, kind \o ": ")
                   ELSE Blank(stream[i], col + 1, col + Len(kind) + 2)

\* C1 witness: a message of several lines was written to the sink
C1_Witness ==
    /\ op = "_write_lines"
    /\ hasStream
    /\ Len(args.lines) >= 3
    /\ Len(stream) = Len(args.lines)
    /\ args.etype = "fail"

\* C2 as stated: _selectBestStackFrame returns the first frame, in call
\* order, whose score is at least 1/7.
C2_FirstAboveThreshold ==
    (op = "_selectBestStackFrame" /\ ~raised) =>
        LET hits == {i \in 1..Len(args) : Scores(args)[i] >= 1}
        IN  hits # {} => ret = args[Min(hits)]

\* C2 amended: _selectBestStackFrame returns the first frame, in call order,
\* whose score is 7/7, whatever follows it; a frame that scores less does
\* not end the walk, and for frames of scores 0, 2/7, 4/7 the result is the
\* third frame.
C2_FirstFullScore ==
    (op = "_selectBestStackFrame" /\ ~raised) =>
        LET full == {i \in 1..Len(args) : Scores(args)[i] >= max_score}
        IN  /\ full # {} => ret = args[Min(full)]
            /\ Scores(args) = <<0, 2, 4>> => ret = args[3]

\* C2 witness: frames of scores 0, 2/7, 4/7, and the third was selected
C2_Witness ==
    /\ op = "_selectBestStackFrame"
    /\ ~raised
    /\ Scores(args) = <<0, 2, 4>>
    /\ ret = args[3]

\* C8: for a single frame _selectBestStackFrame returns that frame; when no
\* frame scores above 0 it returns the last frame; the result is always one
\* of the frames.
C8_Fallback ==
    (op = "_selectBestStackFrame" /\ ~raised) =>
        /\ Len(args) = 1 => ret = args[1]
        /\ (\A i \in 1..Len(args) : Scores(args)[i] = 0) => ret = args[Len(args)]
        /\ \E i \in 1..Len(args) : ret = args[i]

\* C8 witness: several frames, none scoring above 0, and the last selected
C8_Witness ==
    /\ op = "_selectBestStackFrame"
    /\ Len(args) >= 2
    /\ \A i \in 1..Len(args) : Scores(args)[i] = 0
    /\ ret = args[Len(args)]
    /\ ret # args[1]

\* C9: when some frame scores above 0, _selectBestStackFrame returns the
\* earliest frame whose score is the maximum over all the frames: no frame
\* of the input scores higher than the result.
C9_EarliestMaximum ==
    (op = "_selectBestStackFrame" /\ ~raised
        /\ \E i \in 1..Len(args) : Scores(args)[i] > 0) =>
        LET top == Max({Scores(args)[i] : i \in 1..Len(args)})
        IN  ret = args[Min({i \in 1..Len(args) : Scores(args)[i] = top})]

\* C9 witness: the maximum is below 7/7, comes after a lower score and is
\* reached twice; the earlier of the two frames was selected
C9_Witness ==
    /\ op = "_selectBestStackFrame"
    /\ Len(args) = 3
    /\ Scores(args)[1] > 0
    /\ Scores(args)[1] < Scores(args)[2]
    /\ Scores(args)[2] = Scores(args)[3]
    /\ Scores(args)[2] < max_score
    /\ ret = args[2]

\* C6: for a file name that starts with basepath, joining basepath, "/" and
\* what _format_testfname returns gives the file name back; any other file
\* name is returned unchanged.
C6_RoundTrip ==
    op = "_format_testfname" =>
        IF startswith(args, basepath)
        THEN basepath \o "/" \o ret = args
        ELSE ret = args

\* C3: for a report of n >= 1 well-formed sections _format_doctests yields
\* n records, in section order, record i with the file and the line number
\* of the header of section i, also when the text of a section holds '-'.
C3_OneRecordPerSection ==
    (op = "_format_doctests" /\ WellFormed(SectionsOf(args.secs))) =>
        LET secs == SectionsOf(args.secs)
        IN  /\ ~raised
            /\ Len(ret) = Len(secs)
            /\ \A i \in 1..Len(secs) :
                ret[i][2] = secs[i].path /\ ret[i][3] = int(secs[i].line)

\* The report of the scenario: a section at line 5 with no output, one at
\* line 9 with another output
C4_Scenario ==
    "Failed doctest test for foo\n"
    \o "  File \"/foo.py\", line 1, in foo_fn\n"
    \o "-------------------------------------------------\n"
    \o "File \"/foo.py\", line 5, in foo_fn\n"
    \o "Failed example:\n"
    \o "    foo_bar()\n"
    \o "Expected:\n"
    \o "    foo\n"
    \o "Got nothing\n"
    \o "-------------------------------------------------\n"
    \o "File \"/foo.py\", line 9, in foo_fn\n"
    \o "Failed example:\n"
    \o "    foo_fn()\n"
    \o "Expected:\n"
    \o "    foo\n"
    \o "Got:\n"
    \o "    bar\n"

\* C4 as stated: the scenario report parses to two records whose messages
\* quote the expected and the actual value without their indentation,
\* 'foo' and 'bar'.
C4_ScenarioUnindented ==
    (op = "_format_doctests" /\ args.text = C4_Scenario) =>
        /\ ~raised
        /\ ret = << <<"fail", "/foo.py", 5, <<"expected 'foo' but got nothing">>>>,
                    <<"fail", "/foo.py", 9, <<"expected 'foo' but got 'bar'">>>> >>

\* C4 amended: the scenario report parses to exactly two records, (fail,
\* /foo.py, 5, ["expected '    foo' but got nothing"]) and (fail, /foo.py,
\* 9, ["expected '    foo' but got '    bar'"]): the quoted values keep the
\* four blanks the report puts before them.
C4_ScenarioIndented ==
    (op = "_format_doctests" /\ args.text = C4_Scenario) =>
        /\ ~raised
        /\ ret = << <<"fail", "/foo.py", 5,
                      <<"expected '    foo' but got nothing">>>>,
                    <<"fail", "/foo.py", 9,
                      <<"expected '    foo' but got '    bar'">>>> >>

\* C4 witness: the scenario report was parsed, to two records
C4_Witness ==
    /\ op = "_format_doctests"
    /\ args.text = C4_Scenario
    /\ Len(ret) = 2

\* C5: for every section whose outcome is an exception with the traceback
\* lines L1..Lk, _format_doctests yields a record of kind 'error' whose
\* message lines are Lk, L1, ..., L(k-1).
C5_LastLineFirst ==
    (op = "_format_doctests" /\ WellFormed(SectionsOf(args.secs))) =>
        \A i \in 1..Len(args.secs) :
            LET sec == SectionPool[args.secs[i]]
                k   == Len(sec.tb)
            IN  sec.outcome = "exc" =>
                    /\ i <= Len(ret)
                    /\ ret[i][1] = "error"
                    /\ ret[i][4] = <<sec.tb[k]>> \o SubSeq(sec.tb, 1, k - 1)

\* C7: when a section of a doctest report is not of the expected layout,
\* the hook ends in an exception and no line of the report is written.
C7_NoPartialOutput ==
    (op \in Hooks /\ args.secs # <<>> /\ ~WellFormed(SectionsOf(args.secs))) =>
        raised /\ stream = <<>>

\* The kind of the record of a section: 'error' for an exception, 'fail'
\* for another value or no output
KindOf(sec) == IF sec.outcome = "exc" THEN "error" ELSE "fail"

\* The index in the sink of the headline of record k
RECURSIVE HeadlineAt(_, _)
HeadlineAt(recs, k) ==
    IF k = 1 THEN 1 ELSE HeadlineAt(recs, k - 1) + Len(recs[k - 1][4])

\* C10: for a doctest report each record is written under the kind of its
\* section's outcome, and the other hook writes the same lines for the same
\* report; for another exception the kind written is 'error' for addError
\* and 'fail' for addFailure.
C10_KindByOutcome ==
    op \in Hooks =>
        LET hook  == IF op = "addError" THEN "error" ELSE "fail"
            other == IF op = "addError" THEN addFailure("test", args)
                     ELSE addError("test", args)
            recs  == _format_doctests(args.value_str).records
            label(file, line, kind) ==
                _format_testfname(file) \o ":" \o fmt_d(line) \o ": " \o kind \o ": "
        IN  IF args.secs # <<>>
            THEN /\ stream = other.out
                 /\ raised = other.raised
                 /\ hasStream =>
                      \A k \in 1..Len(recs) :
                        startswith(stream[HeadlineAt(recs, k)],
                                   label(recs[k][2], recs[k][3],
                                         KindOf(SectionPool[args.secs[k]])))
            ELSE ~raised =>
                    LET frame == _selectBestStackFrame(args.tb)
                    IN  startswith(stream[1], label(frame[1], frame[2], hook))

\* C10 witness: addError delivered a doctest report of a value mismatch and
\* of an exception, written as 'fail' and then as 'error'
C10_Witness ==
    /\ op = "addError"
    /\ hasStream
    /\ args.secs = <<2, 3>>
    /\ ~raised
    /\ Len(stream) = 4
    /\ contains(stream[1], ": fail: ")
    /\ contains(stream[2], ": error: ")

====
